---- MODULE Spec2Model ----
(***************************************************************************)
(* Model of public/app.js: the GPX upload handler and its pipeline         *)
(*   processGPX -> samplePointsByDistance -> calculateTimedPoints          *)
(*   -> displayRoute -> fetchWeatherData -> displayWeather                 *)
(* together with the global map state (markers, routeLayer).               *)
(*                                                                         *)
(* Units: distances are meters, times are milliseconds.  Coordinates are   *)
(* taken on a meridian grid measured in meters, so that the great-circle   *)
(* distance of Leaflet's distanceTo is the absolute coordinate difference. *)
(***************************************************************************)
EXTENDS Integers, Sequences, FiniteSets, TLC

\* ------------------------------------------------------------------ bounds
\* SampleSpec: raw GPX tracks of at most MaxTrackLen points whose coordinate is
\* 0, 300, 500, 700 or a whole number of kilometres up to MaxLatKm; the interval
\* field is 0..MaxIntervalKm.
MaxTrackLen == 4
MaxLatKm == 2
MaxIntervalKm == 2
\* Spec: uploaded routes are at most MaxKm kilometres long.
MaxKm == 2

Runs == {1, 2}

\* ------------------------------------------------------- pure functions
Abs(x) == IF x < 0 THEN 0 - x ELSE x

\* a / b rounded toward zero (b # 0), as ECMAScript's TimeClip rounds a time value
TruncDiv(a, b) ==
  LET q == Abs(a) \div Abs(b)
  IN IF (a < 0) = (b < 0) THEN q ELSE 0 - q

\* currentCoords.distanceTo(prevCoords), app.js line 51
distanceTo(a, b) == Abs(a.lat - b.lat) + Abs(a.lon - b.lon)

\* the forEach of processGPX, lines 45-61
RECURSIVE processLoop(_, _, _, _)
processLoop(trackPoints, index, cumulativeDistance, points) ==
  IF index > Len(trackPoints) THEN points
  ELSE LET pt == trackPoints[index]
           cd == IF index > 1
                 THEN cumulativeDistance + distanceTo(pt, trackPoints[index - 1])
                 ELSE cumulativeDistance
       IN processLoop(trackPoints, index + 1, cd,
            Append(points, [lat |-> pt.lat, lon |-> pt.lon, cumulativeDistance |-> cd]))

\* processGPX, lines 39-64: never throws, an empty document gives an empty array
processGPX(gpxDoc) == processLoop(gpxDoc, 1, 0, <<>>)

FindIndexStrict(points, currentInterval) ==
  LET S == {k \in 1..Len(points) : points[k].cumulativeDistance > currentInterval}
  IN IF S = {} THEN 0 ELSE CHOOSE k \in S : \A j \in S : k <= j

\* points.find(p => p.cumulativeDistance >= currentInterval) followed by
\* points.indexOf(nextPoint): the lowest such index, 0 when find returns undefined
FindIndex(points, currentInterval) ==
  LET S == {k \in 1..Len(points) : points[k].cumulativeDistance >= currentInterval}
  IN IF S = {} THEN 0 ELSE CHOOSE k \in S : \A j \in S : k <= j

\* prev + (next - prev) * ratio with ratio = num / den, lines 86-91.
\* (den = 0 gives NaN in the program; the interpolation is then recorded in the
\* trace with den = 0 and the coordinate is left at prev.)
Blend(prev, next, num, den) ==
  IF den = 0 THEN prev ELSE prev + TruncDiv((next - prev) * num, den)

Interpolate(prevPoint, nextPoint, currentInterval) ==
  LET num == currentInterval - prevPoint.cumulativeDistance
      den == nextPoint.cumulativeDistance - prevPoint.cumulativeDistance
  IN [lat |-> Blend(prevPoint.lat, nextPoint.lat, num, den),
      lon |-> Blend(prevPoint.lon, nextPoint.lon, num, den),
      cumulativeDistance |-> currentInterval]

\* the while loop of samplePointsByDistance, lines 73-97.  acc.sampled is the
\* array built so far; acc.trace records every interpolation made
\* (prevDist, offset, currDist).
RECURSIVE sampleLoop(_, _, _, _, _)
sampleLoop(points, intervalMeters, totalDistance, currentInterval, acc) ==
  IF ~(currentInterval <= totalDistance) THEN acc
  ELSE LET n == FindIndex(points, currentInterval)
       IN IF n = 0 THEN acc
          ELSE LET nextPoint == points[n]
               IN IF nextPoint.cumulativeDistance = currentInterval \/ n = 1
                  THEN sampleLoop(points, intervalMeters, totalDistance,
                         currentInterval + intervalMeters,
                         [sampled |-> Append(acc.sampled, nextPoint),
                          trace |-> acc.trace])
                  ELSE LET prevPoint == points[n - 1]
                       IN sampleLoop(points, intervalMeters, totalDistance,
                            currentInterval + intervalMeters,
                            [sampled |-> Append(acc.sampled,
                                           Interpolate(prevPoint, nextPoint, currentInterval)),
                             trace |-> Append(acc.trace,
                                         [prevDist |-> prevPoint.cumulativeDistance,
                                          offset |-> currentInterval,
                                          currDist |-> nextPoint.cumulativeDistance])])

sampleRun(points, intervalMeters) ==
  sampleLoop(points, intervalMeters, points[Len(points)].cumulativeDistance, 0,
             [sampled |-> <<>>, trace |-> <<>>])

AppendLastNever(sampled, lastPoint) == sampled

AppendLastAlways(sampled, lastPoint) == Append(sampled, lastPoint)

\* lines 99-103: "Always include final point if not already added"
AppendLast(sampled, lastPoint) ==
  IF Len(sampled) = 0
     \/ sampled[Len(sampled)].cumulativeDistance < lastPoint.cumulativeDistance
  THEN Append(sampled, lastPoint)
  ELSE sampled

\* samplePointsByDistance, lines 66-106
samplePointsByDistance(points, intervalMeters) ==
  IF Len(points) = 0 \/ intervalMeters <= 0 THEN points
  ELSE AppendLast(sampleRun(points, intervalMeters).sampled, points[Len(points)])

\* the interpolations samplePointsByDistance makes on the way
sampleTrace(points, intervalMeters) ==
  IF Len(points) = 0 \/ intervalMeters <= 0 THEN <<>>
  ELSE sampleRun(points, intervalMeters).trace

NewDateMinus(startTime, cumulativeDistance, avgSpeed) ==
  IF avgSpeed = 0 THEN [valid |-> FALSE, ms |-> 0]
  ELSE [valid |-> TRUE,
        ms |-> TruncDiv(startTime * avgSpeed - cumulativeDistance * 3600, avgSpeed)]

\* new Date(startTime.getTime() + (cumulativeDistance / 1000 / avgSpeed) * 3600000),
\* lines 112-113.  Division by 0 gives Infinity or NaN, hence an Invalid Date.
NewDate(startTime, cumulativeDistance, avgSpeed) ==
  IF avgSpeed = 0 THEN [valid |-> FALSE, ms |-> 0]
  ELSE [valid |-> TRUE,
        ms |-> TruncDiv(startTime * avgSpeed + cumulativeDistance * 3600, avgSpeed)]

\* the object literal of calculateTimedPoints, lines 109-114: lat, lon and time only
TimedPoint(point, startTime, avgSpeed) ==
  [lat |-> point.lat, lon |-> point.lon,
   time |-> NewDate(startTime, point.cumulativeDistance, avgSpeed)]

\* calculateTimedPoints, lines 108-115: a map, it has no failure path
calculateTimedPoints(points, startTime, avgSpeed) ==
  [k \in 1..Len(points) |-> TimedPoint(points[k], startTime, avgSpeed)]

\* formatDate, lines 158-160: the UTC day of a valid date; toISOString throws a
\* RangeError on an Invalid Date (threw = TRUE)
formatDate(date) ==
  IF date.valid THEN [threw |-> FALSE, day |-> date.ms \div 86400000]
  ELSE [threw |-> TRUE, day |-> 0]

\* point.time.getHours(), line 139
getHours(date) == (date.ms \div 3600000) % 24

\* the request of lines 132-136 for the point at index k of run r
Request(r, k, point) ==
  [run |-> r, idx |-> k, latitude |-> point.lat, longitude |-> point.lon,
   date |-> formatDate(point.time).day]

\* the object pushed at lines 141-146: {...point, temp, wind, code}
WeatherEntry(point, data) ==
  LET hourIndex == getHours(point.time)
  IN point @@ [temp |-> data.hourly[1].temperature_2m[hourIndex],
               wind |-> data.hourly[1].windspeed_10m[hourIndex],
               code |-> data.hourly[1].weathercode[hourIndex]]

OnLookupFailurePlaceholder(weatherData, point) ==
  Append(weatherData, point @@ [temp |-> 0, wind |-> 0, code |-> 0])

\* the catch block of lines 150-152: console.error only, the list is left alone
OnLookupFailure(weatherData, point) == weatherData

\* lines 141-146 on a decoded response
OnLookupSuccess(weatherData, point, data) ==
  Append(weatherData, WeatherEntry(point, data))

\* the marker of addMarker, lines 162-170 (run and idx identify the object)
Marker(r, k, point, temp) ==
  [lat |-> point.lat, lon |-> point.lon, html |-> temp, run |-> r, idx |-> k]

\* the for loop of lines 130-153 resumed at index j: the points whose request
\* cannot be built (formatDate throws, caught at line 150) fail at once, and the
\* loop suspends at the first point whose fetch is issued (next), or runs off
\* the end (next = Len + 1)
RECURSIVE LoopFrom(_, _)
LoopFrom(points, j) ==
  IF j > Len(points) THEN [failed |-> <<>>, next |-> j]
  ELSE IF formatDate(points[j].time).threw
       THEN LET rest == LoopFrom(points, j + 1)
            IN [failed |-> <<j>> \o rest.failed, next |-> rest.next]
       ELSE [failed |-> <<>>, next |-> j]

\* the fetches issued when the loop reaches index next: the loop awaits each
\* fetch (line 132) before it goes on, so it is that one alone
IssuedAll(points, next) == [k \in 1..(Len(points) + 1 - next) |-> next + k - 1]
Issued(points, next) == IF next <= Len(points) THEN <<next>> ELSE <<>>

\* weatherCodeToText, lines 185-194
weatherCodeToText(code) ==
  CASE code = 0 -> "Clear" [] code = 1 -> "Mostly Clear"
    [] code = 2 -> "Partly Cloudy" [] code = 3 -> "Overcast"
    [] code = 45 -> "Fog" [] code = 48 -> "Freezing Fog"
    [] code = 51 -> "Drizzle" [] code = 56 -> "Freezing Drizzle"
    [] code = 61 -> "Rain" [] code = 63 -> "Moderate Rain"
    [] code = 65 -> "Heavy Rain" [] code = 66 -> "Freezing Rain"
    [] code = 71 -> "Snow" [] code = 73 -> "Moderate Snow"
    [] code = 75 -> "Heavy Snow" [] code = 77 -> "Snow Grains"
    [] code = 80 -> "Showers" [] code = 85 -> "Snow Showers"
    [] code = 95 -> "Thunderstorm" [] code = 96 -> "Thunderstorm + Hail"
    [] OTHER -> "Unknown"

\* point.cumulativeDistance as displayWeather reads it, line 177: undefined when
\* the object has no such property
ReadDistance(point) ==
  IF "cumulativeDistance" \in DOMAIN point
  THEN [defined |-> TRUE, meters |-> point.cumulativeDistance]
  ELSE [defined |-> FALSE, meters |-> 0]

\* (x / 1000).toFixed(1): tenths of a kilometre, rounded; "NaN" for undefined
ToFixedKm(d) ==
  IF d.defined THEN [nan |-> FALSE, tenths |-> (d.meters + 50) \div 100]
  ELSE [nan |-> TRUE, tenths |-> 0]

\* one weather card of displayWeather, lines 175-181
Card(point) ==
  [time |-> (point.time.ms \div 1000) % 86400,
   distance |-> ToFixedKm(ReadDistance(point)),
   temp |-> point.temp, wind |-> point.wind,
   conditions |-> weatherCodeToText(point.code)]

\* container.innerHTML of displayWeather, lines 172-183
displayWeather(data) == [k \in 1..Len(data) |-> Card(data[k])]

Range(s) == {s[k] : k \in 1..Len(s)}

\* ------------------------------------------------------------------ state
VARIABLES
  pc,               \* per run of the change handler: where it is suspended
  form,             \* per run: the file and the form fields read at lines 15-20
  points,           \* per run: const points, line 27
  sampledPoints,    \* per run: const sampledPoints, line 28
  interpolations,   \* per run: the interpolations made while sampling (history)
  timedPoints,      \* per run: const timedPoints, line 29
  performed,        \* per run: the pipeline stages that were run (history)
  idx,              \* per run: index of the point whose lookup is suspended
  weatherData,      \* per run: const weatherData of fetchWeatherData, line 128
  started,          \* per run: the indices whose lookup was started, in order (history)
  completed,        \* per run: the lookups that ended, with their outcome (history)
  thrown,           \* per run: the error caught at line 34, "none" if none
  overlapped,       \* the second upload was handled while run 1's lookups were suspended
  inflight,         \* the fetch requests issued and not yet settled
  markers,          \* const markers, line 3
  mapMarkers,       \* the marker layers on the Leaflet map
  routeLayer,       \* let routeLayer, line 2: <<>> or <<the polyline on the map>>
  weatherTimeline,  \* innerHTML of #weatherTimeline
  errorText,        \* textContent of #errorContainer
  timers            \* pending setTimeout callbacks of showError

vars == <<pc, form, points, sampledPoints, interpolations, timedPoints, performed,
          idx, weatherData, started, completed, thrown, overlapped, inflight,
          markers, mapMarkers, routeLayer, weatherTimeline, errorText, timers>>

runVars == <<points, sampledPoints, interpolations, timedPoints, performed,
             idx, weatherData, started, completed>>
mapVars == <<markers, mapMarkers, routeLayer, weatherTimeline>>

\* ----------------------------------------------------------------- inputs
TrkPt(lat) == [lat |-> lat, lon |-> 0]

NoFile == [present |-> FALSE, trkpts |-> <<>>]
GpxFile(trkpts) == [present |-> TRUE, trkpts |-> trkpts]

\* Spec: an empty document, a single point, straight routes of 0..MaxKm km, and
\* the three-point route with cumulative distances 0, 500, 1200
Files ==
  {GpxFile(<<>>), GpxFile(<<TrkPt(0)>>), GpxFile(<<TrkPt(500), TrkPt(0), TrkPt(700)>>)}
  \cup {GpxFile(<<TrkPt(0), TrkPt(k * 1000)>>) : k \in 0..MaxKm}
StartTimes == {1000}
Speeds == {0, 20}
IntervalKms == {1}

\* SampleSpec: every track of at most MaxTrackLen points over SampleLats
SampleLats == {0, 300, 500, 700} \cup {1000 * k : k \in 1..MaxLatKm}
RECURSIVE TracksOfLen(_)
TracksOfLen(n) ==
  IF n = 0 THEN {<<>>}
  ELSE {Append(t, TrkPt(c)) : t \in TracksOfLen(n - 1), c \in SampleLats}
SampleFiles == {GpxFile(t) : t \in UNION {TracksOfLen(n) : n \in 0..MaxTrackLen}}
SampleStartTimes == {0, 1000}
SampleSpeeds == {0 - 30, 0, 7, 30}

\* the decoded body of a forecast response: with the hourly arrays, or (an API
\* error body) without them
Hourly ==
  [temperature_2m |-> [h \in 0..23 |-> 15], windspeed_10m |-> [h \in 0..23 |-> 3],
   weathercode |-> [h \in 0..23 |-> 61]]
Responses == {[hourly |-> <<>>], [hourly |-> <<Hourly>>]}

NoForm == [file |-> NoFile, startTime |-> 0, avgSpeed |-> 0, intervalKm |-> 0]

Init ==
  /\ pc = [r \in Runs |-> "idle"]
  /\ form = [r \in Runs |-> NoForm]
  /\ points = [r \in Runs |-> <<>>]
  /\ sampledPoints = [r \in Runs |-> <<>>]
  /\ interpolations = [r \in Runs |-> <<>>]
  /\ timedPoints = [r \in Runs |-> <<>>]
  /\ performed = [r \in Runs |-> {}]
  /\ idx = [r \in Runs |-> 0]
  /\ weatherData = [r \in Runs |-> <<>>]
  /\ started = [r \in Runs |-> <<>>]
  /\ completed = [r \in Runs |-> <<>>]
  /\ thrown = [r \in Runs |-> "none"]
  /\ overlapped = FALSE
  /\ inflight = {}
  /\ markers = <<>>
  /\ mapMarkers = {}
  /\ routeLayer = <<>>
  /\ weatherTimeline = <<>>
  /\ errorText = ""
  /\ timers = 0

\* ---------------------------------------------------------------- actions
\* showError, lines 201-205, reached from the catch of line 34
ShowError(r, message) ==
  /\ thrown' = [thrown EXCEPT ![r] = message]
  /\ errorText' = message
  /\ timers' = timers + 1

\* the timer callback of line 204
ClearError ==
  /\ timers > 0
  /\ errorText' = ""
  /\ timers' = timers - 1
  /\ UNCHANGED <<pc, form, runVars, thrown, overlapped, inflight, mapVars>>

\* the change event with no file chosen: return at line 16
UploadNoFile(r) ==
  /\ pc[r] = "idle"
  /\ \A q \in Runs : q < r => pc[q] # "idle"
  /\ pc' = [pc EXCEPT ![r] = "done"]
  /\ overlapped' = overlapped
  /\ UNCHANGED <<form, runVars, thrown, inflight, mapVars, errorText, timers>>

\* the change event, lines 14-23, up to the suspension at await file.text()
Upload(r) ==
  /\ pc[r] = "idle"
  /\ \A q \in Runs : q < r => pc[q] # "idle"
  /\ \E file \in Files, startTime \in StartTimes, avgSpeed \in Speeds,
        intervalKm \in IntervalKms :
       form' = [form EXCEPT ![r] = [file |-> file, startTime |-> startTime,
                                    avgSpeed |-> avgSpeed, intervalKm |-> intervalKm]]
  /\ pc' = [pc EXCEPT ![r] = "reading"]
  /\ overlapped' = (overlapped \/ \E q \in Runs : q < r /\ pc[q] \in {"fetch", "json"})
  /\ UNCHANGED <<runVars, thrown, inflight, mapVars, errorText, timers>>

\* file.text() rejects: the catch of line 34
TextRejected(r) ==
  /\ pc[r] = "reading"
  /\ pc' = [pc EXCEPT ![r] = "done"]
  /\ ShowError(r, "Error: read")
  /\ UNCHANGED <<form, runVars, overlapped, inflight, mapVars>>

\* the for loop of fetchWeatherData resumed after the point at index i, with wd
\* the list and cp the completion history so far; displayWeather (line 155) when
\* the loop runs off the end.  tp is the run's timedPoints, pf the stages run.
Continue(r, tp, i, wd, cp, pf) ==
  LET lf == LoopFrom(tp, i + 1)
      more == lf.next <= Len(tp)
  IN /\ started' = [started EXCEPT ![r] =
                      @ \o lf.failed \o (IF more THEN <<lf.next>> ELSE <<>>)]
     /\ completed' = [completed EXCEPT ![r] =
                        cp \o [k \in 1..Len(lf.failed) |-> [idx |-> lf.failed[k], ok |-> FALSE]]]
     /\ weatherData' = [weatherData EXCEPT ![r] = wd]
     /\ idx' = [idx EXCEPT ![r] = lf.next]
     /\ inflight' = {q \in inflight : q.run # r}
                    \cup {Request(r, k, tp[k]) : k \in Range(Issued(tp, lf.next))}
     /\ pc' = [pc EXCEPT ![r] = IF more THEN "fetch" ELSE "done"]
     /\ performed' = [performed EXCEPT ![r] =
                        pf \cup (IF more THEN {} ELSE {"displayWeather"})]
     /\ weatherTimeline' = IF more THEN weatherTimeline ELSE displayWeather(wd)

\* file.text() resolves: lines 24-32 up to the first suspension.  fitBounds on
\* the bounds of an empty polyline is Leaflet's business: it may throw.
Process(r) ==
  /\ pc[r] = "reading"
  /\ LET pts == processGPX(form[r].file.trkpts)
         smp == samplePointsByDistance(pts, form[r].intervalKm * 1000)
         tp == calculateTimedPoints(smp, form[r].startTime, form[r].avgSpeed)
     IN /\ points' = [points EXCEPT ![r] = pts]
        /\ sampledPoints' = [sampledPoints EXCEPT ![r] = smp]
        /\ interpolations' = [interpolations EXCEPT ![r] =
                                sampleTrace(pts, form[r].intervalKm * 1000)]
        /\ timedPoints' = [timedPoints EXCEPT ![r] = tp]
        /\ routeLayer' = <<[latlngs |-> [k \in 1..Len(pts) |-> <<pts[k].lat, pts[k].lon>>],
                            run |-> r]>>
        /\ \E fitThrows \in (IF Len(pts) = 0 THEN BOOLEAN ELSE {FALSE}) :
             IF fitThrows
             THEN /\ pc' = [pc EXCEPT ![r] = "done"]
                  /\ performed' = [performed EXCEPT ![r] =
                       {"processGPX", "samplePointsByDistance", "calculateTimedPoints",
                        "displayRoute"}]
                  /\ ShowError(r, "Error: Bounds are not valid.")
                  /\ UNCHANGED <<idx, weatherData, started, completed, inflight,
                                 markers, mapMarkers, weatherTimeline>>
             ELSE \* clearMarkers, lines 196-199, then the loop
                  /\ mapMarkers' = mapMarkers \ Range(markers)
                  /\ markers' = <<>>
                  /\ Continue(r, tp, 0, <<>>, <<>>,
                       {"processGPX", "samplePointsByDistance", "calculateTimedPoints",
                        "displayRoute", "fetchWeatherData"})
                  /\ UNCHANGED <<thrown, errorText, timers>>
  /\ UNCHANGED <<form, overlapped>>

\* the lookup of the point at index idx[r] ends in the catch of line 150
LookupFailed(r) ==
  LET i == idx[r]
  IN /\ Continue(r, timedPoints[r], i,
                 OnLookupFailure(weatherData[r], timedPoints[r][i]),
                 Append(completed[r], [idx |-> i, ok |-> FALSE]), performed[r])
     /\ UNCHANGED <<form, points, sampledPoints, interpolations, timedPoints, thrown,
                    overlapped, markers, mapMarkers, routeLayer, errorText, timers>>

\* fetch rejects (network error), line 132
FetchRejected(r) ==
  /\ pc[r] = "fetch"
  /\ LookupFailed(r)

\* fetch resolves; the handler suspends again at await response.json(), line 138
FetchResolved(r) ==
  /\ pc[r] = "fetch"
  /\ pc' = [pc EXCEPT ![r] = "json"]
  /\ UNCHANGED <<form, runVars, thrown, overlapped, inflight, mapVars, errorText, timers>>

\* response.json() rejects (the body is not JSON), line 138
JsonRejected(r) ==
  /\ pc[r] = "json"
  /\ LookupFailed(r)

\* response.json() resolves with a body that has no hourly arrays: the read at
\* line 143 throws a TypeError
JsonWithoutHourly(r) ==
  /\ pc[r] = "json"
  /\ \E data \in Responses : Len(data.hourly) = 0
  /\ LookupFailed(r)

\* response.json() resolves with the hourly arrays: lines 139-148, push and
\* addMarker, then the loop goes on
JsonResolved(r) ==
  /\ pc[r] = "json"
  /\ \E data \in Responses :
       /\ Len(data.hourly) > 0
       /\ LET i == idx[r]
              point == timedPoints[r][i]
              m == Marker(r, i, point, data.hourly[1].temperature_2m[getHours(point.time)])
          IN /\ markers' = Append(markers, m)
             /\ mapMarkers' = mapMarkers \cup {m}
             /\ Continue(r, timedPoints[r], i,
                         OnLookupSuccess(weatherData[r], point, data),
                         Append(completed[r], [idx |-> i, ok |-> TRUE]), performed[r])
  /\ UNCHANGED <<form, points, sampledPoints, interpolations, timedPoints, thrown,
                 overlapped, routeLayer, errorText, timers>>

Next ==
  \/ \E r \in Runs : UploadNoFile(r)
  \/ \E r \in Runs : Upload(r)
  \/ \E r \in Runs : TextRejected(r)
  \/ \E r \in Runs : Process(r)
  \/ \E r \in Runs : FetchRejected(r)
  \/ \E r \in Runs : FetchResolved(r)
  \/ \E r \in Runs : JsonRejected(r)
  \/ \E r \in Runs : JsonWithoutHourly(r)
  \/ \E r \in Runs : JsonResolved(r)
  \/ ClearError

Spec == Init /\ [][Next]_vars

\* ------------------------------------------- the pipeline, stage by stage
\* SampleSpec applies processGPX, samplePointsByDistance and calculateTimedPoints
\* one after the other to every track of SampleFiles (run 1 holds the values).
SampleInit ==
  /\ pc = [r \in Runs |-> IF r = 1 THEN "gpx" ELSE "idle"]
  /\ \E file \in SampleFiles :
       form = [r \in Runs |-> IF r = 1 THEN [NoForm EXCEPT !.file = file] ELSE NoForm]
  /\ points = [r \in Runs |-> <<>>]
  /\ sampledPoints = [r \in Runs |-> <<>>]
  /\ interpolations = [r \in Runs |-> <<>>]
  /\ timedPoints = [r \in Runs |-> <<>>]
  /\ performed = [r \in Runs |-> {}]
  /\ idx = [r \in Runs |-> 0]
  /\ weatherData = [r \in Runs |-> <<>>]
  /\ started = [r \in Runs |-> <<>>]
  /\ completed = [r \in Runs |-> <<>>]
  /\ thrown = [r \in Runs |-> "none"]
  /\ overlapped = FALSE
  /\ inflight = {}
  /\ markers = <<>>
  /\ mapMarkers = {}
  /\ routeLayer = <<>>
  /\ weatherTimeline = <<>>
  /\ errorText = ""
  /\ timers = 0

stageFrame == <<idx, weatherData, started, completed, thrown, overlapped, inflight,
                markers, mapMarkers, routeLayer, weatherTimeline, errorText, timers>>

\* line 27
StepProcessGPX ==
  /\ pc[1] = "gpx"
  /\ points' = [points EXCEPT ![1] = processGPX(form[1].file.trkpts)]
  /\ performed' = [performed EXCEPT ![1] = @ \cup {"processGPX"}]
  /\ pc' = [pc EXCEPT ![1] = "track"]
  /\ UNCHANGED <<form, sampledPoints, interpolations, timedPoints, stageFrame>>

\* line 28, for every value of the interval field
StepSample ==
  /\ pc[1] = "track"
  /\ \E intervalKm \in 0..MaxIntervalKm :
       /\ form' = [form EXCEPT ![1].intervalKm = intervalKm]
       /\ sampledPoints' = [sampledPoints EXCEPT ![1] =
                              samplePointsByDistance(points[1], intervalKm * 1000)]
       /\ interpolations' = [interpolations EXCEPT ![1] =
                               sampleTrace(points[1], intervalKm * 1000)]
  /\ performed' = [performed EXCEPT ![1] = @ \cup {"samplePointsByDistance"}]
  /\ pc' = [pc EXCEPT ![1] = "sampled"]
  /\ UNCHANGED <<points, timedPoints, stageFrame>>

\* line 29, for every start time and speed field
StepCalculateTimedPoints ==
  /\ pc[1] = "sampled"
  /\ \E startTime \in SampleStartTimes, avgSpeed \in SampleSpeeds :
       /\ form' = [form EXCEPT ![1].startTime = startTime, ![1].avgSpeed = avgSpeed]
       /\ timedPoints' = [timedPoints EXCEPT ![1] =
                            calculateTimedPoints(sampledPoints[1], startTime, avgSpeed)]
  /\ performed' = [performed EXCEPT ![1] = @ \cup {"calculateTimedPoints"}]
  /\ pc' = [pc EXCEPT ![1] = "timed"]
  /\ UNCHANGED <<points, sampledPoints, interpolations, stageFrame>>

SampleNext == StepProcessGPX \/ StepSample \/ StepCalculateTimedPoints

SampleSpec == SampleInit /\ [][SampleNext]_vars

\* ----------------------------------------------------------------- claims
IsOk(c) == c.ok
Succeeded(r) == SelectSeq(completed[r], IsOk)
Distances(s) == [k \in 1..Len(s) |-> s[k].cumulativeDistance]
Total(r) == points[r][Len(points[r])].cumulativeDistance
IntervalMeters(r) == form[r].intervalKm * 1000
Sampled(r) == "samplePointsByDistance" \in performed[r]

\* C1: in a run of fetchWeatherData the lookups are started once per timed point
\* and in input order, the lookup of a point starts only when the lookups of all
\* the points before it have ended, at most one request of the run is in flight,
\* and a finished run has looked up every point.
C1_SequentialLookups ==
  \A r \in Runs :
    /\ started[r] = [k \in 1..Len(started[r]) |-> k]
    /\ Len(started[r]) <= Len(timedPoints[r])
    /\ \A k \in 1..Len(completed[r]) : completed[r][k].idx = k
    /\ Len(completed[r]) <= Len(started[r])
    /\ Len(started[r]) <= Len(completed[r]) + 1
    /\ Cardinality({q \in inflight : q.run = r}) = Len(started[r]) - Len(completed[r])
    /\ (pc[r] = "done" /\ "fetchWeatherData" \in performed[r])
         => /\ Len(started[r]) = Len(timedPoints[r])
            /\ Len(completed[r]) = Len(timedPoints[r])

C1_Witness ==
  \E r \in Runs :
    /\ pc[r] = "done"
    /\ Len(timedPoints[r]) = 3
    /\ started[r] = <<1, 2, 3>>
    /\ completed[r][1].ok /\ ~completed[r][2].ok /\ completed[r][3].ok

\* C2: the list of a run holds, at every moment, exactly the timed points whose
\* lookup succeeded so far, in input order, each with its forecast; when
\* displayWeather is called every point has been looked up, so the list handed
\* over is the input restricted to the successes.
C2_OutputIsSuccesses ==
  \A r \in Runs :
    LET ok == Succeeded(r)
    IN /\ Len(weatherData[r]) = Len(ok)
       /\ \A k \in 1..Len(ok) :
            LET e == weatherData[r][k]
            IN /\ DOMAIN e = {"lat", "lon", "time", "temp", "wind", "code"}
               /\ [lat |-> e.lat, lon |-> e.lon, time |-> e.time] = timedPoints[r][ok[k].idx]
       /\ "displayWeather" \in performed[r]
            => /\ pc[r] = "done"
               /\ Len(completed[r]) = Len(timedPoints[r])

C2_Witness ==
  \E r \in Runs :
    /\ "displayWeather" \in performed[r]
    /\ Len(timedPoints[r]) = 3
    /\ completed[r][1].ok /\ ~completed[r][2].ok /\ completed[r][3].ok
    /\ Len(weatherData[r]) = 2
    /\ weatherData[r][2].lat = timedPoints[r][3].lat
    /\ weatherTimeline = displayWeather(weatherData[r])

\* C3: for a non-empty track and an interval > 0 the last sampled point has the
\* track's final cumulativeDistance.
C3_EndpointIncluded ==
  (Sampled(1) /\ Len(points[1]) > 0 /\ IntervalMeters(1) > 0)
    => /\ Len(sampledPoints[1]) > 0
       /\ sampledPoints[1][Len(sampledPoints[1])].cumulativeDistance = Total(1)

C3_Witness ==
  /\ Sampled(1)
  /\ Distances(points[1]) = <<0, 500, 1200>>
  /\ IntervalMeters(1) = 1000
  /\ sampledPoints[1][3] = points[1][3]

\* C4 as stated: for a non-empty track and an interval greater than the total
\* distance (a total of 0 included) the samples are exactly the first and the
\* last point of the track.
C4_Original ==
  (Sampled(1) /\ Len(points[1]) > 0 /\ IntervalMeters(1) > Total(1))
    => sampledPoints[1] = <<points[1][1], points[1][Len(points[1])]>>

\* C4 amended: for a non-empty track and an interval greater than the total
\* distance the samples are the first and the last point of the track when the
\* total is > 0, and the first point alone when the total is 0.
C4_Amended ==
  (Sampled(1) /\ Len(points[1]) > 0 /\ IntervalMeters(1) > Total(1))
    => sampledPoints[1] = IF Total(1) > 0
                          THEN <<points[1][1], points[1][Len(points[1])]>>
                          ELSE <<points[1][1]>>

C4_Witness ==
  /\ Sampled(1)
  /\ Len(points[1]) = 3
  /\ Total(1) = 1200
  /\ IntervalMeters(1) = 2000
  /\ sampledPoints[1] = <<points[1][1], points[1][3]>>

\* C5: an upload with zero track points fails with EmptyTrackError, and none of
\* sampling, time projection, route display and weather lookup is run for it.
C5_EmptyTrackFails ==
  \A r \in Runs :
    (pc[r] \notin {"idle", "reading"} /\ form[r].file.present
       /\ Len(form[r].file.trkpts) = 0 /\ thrown[r] # "Error: read")
      => /\ thrown[r] = "Error: EmptyTrackError"
         /\ performed[r] \subseteq {"processGPX"}

\* C6: calculateTimedPoints fails with InvalidSpeedError when avgSpeed <= 0 and
\* returns no timed points then.
C6_InvalidSpeedFails ==
  (pc[1] = "timed" /\ form[1].avgSpeed <= 0)
    => /\ thrown[1] = "Error: InvalidSpeedError"
       /\ timedPoints[1] = <<>>

\* C7: every timed point, and every weather entry built from it, carries the
\* cumulativeDistance of the sampled point it was derived from, which is the
\* value displayWeather reads.
C7_DistanceCarried ==
  \A r \in Runs :
    /\ \A k \in 1..Len(timedPoints[r]) :
         ReadDistance(timedPoints[r][k])
           = [defined |-> TRUE, meters |-> sampledPoints[r][k].cumulativeDistance]
    /\ \A k \in 1..Len(weatherData[r]) :
         ReadDistance(weatherData[r][k])
           = [defined |-> TRUE,
              meters |-> sampledPoints[r][Succeeded(r)[k].idx].cumulativeDistance]

\* C8: for avgSpeed > 0 calculateTimedPoints keeps length and order, and a point
\* that is no farther along the track than another has a time no later.
C8_Monotonic ==
  (pc[1] = "timed" /\ form[1].avgSpeed > 0)
    => /\ Len(timedPoints[1]) = Len(sampledPoints[1])
       /\ \A k \in 1..Len(timedPoints[1]) :
            /\ timedPoints[1][k].lat = sampledPoints[1][k].lat
            /\ timedPoints[1][k].lon = sampledPoints[1][k].lon
            /\ timedPoints[1][k].time.valid
       /\ \A j, k \in 1..Len(timedPoints[1]) :
            sampledPoints[1][j].cumulativeDistance <= sampledPoints[1][k].cumulativeDistance
              => timedPoints[1][j].time.ms <= timedPoints[1][k].time.ms

C8_Witness ==
  /\ pc[1] = "timed"
  /\ form[1].avgSpeed = 30
  /\ form[1].startTime = 1000
  /\ Distances(sampledPoints[1]) = <<0, 1000, 1200>>
  /\ timedPoints[1][2].time.ms = 121000
  /\ timedPoints[1][3].time.ms = 145000

\* C9: for a non-empty track and an interval I > 0 the sampled distances are
\* 0, I, ..., kI for the largest k with kI <= total, followed by total iff
\* kI < total; they increase strictly; every interpolation is made between two
\* adjacent track points with prevDist < offset < currDist.
C9_SampleOffsets ==
  (Sampled(1) /\ Len(points[1]) > 0 /\ IntervalMeters(1) > 0)
    => LET I == IntervalMeters(1)
           total == Total(1)
           k == total \div I
           multiples == [j \in 1..(k + 1) |-> (j - 1) * I]
           d == Distances(sampledPoints[1])
       IN /\ d = multiples \o (IF k * I < total THEN <<total>> ELSE <<>>)
          /\ \A j \in 1..(Len(d) - 1) : d[j] < d[j + 1]
          /\ \A t \in Range(interpolations[1]) :
               /\ t.prevDist < t.offset /\ t.offset < t.currDist
               /\ t.offset \in Range(multiples)
               /\ \E j \in 1..(Len(points[1]) - 1) :
                    /\ points[1][j].cumulativeDistance = t.prevDist
                    /\ points[1][j + 1].cumulativeDistance = t.currDist
          /\ \A j \in 1..Len(d) :
               (\E n \in 1..Len(points[1]) : sampledPoints[1][j] = points[1][n])
               \/ (\E t \in Range(interpolations[1]) : t.offset = d[j])

C9_Witness ==
  /\ Sampled(1)
  /\ Distances(points[1]) = <<0, 500, 1200>>
  /\ IntervalMeters(1) = 1000
  /\ Distances(sampledPoints[1]) = <<0, 1000, 1200>>
  /\ interpolations[1] = <<[prevDist |-> 500, offset |-> 1000, currDist |-> 1200]>>

\* C10: when the second upload was handled while the lookups of the first were
\* suspended and both handlers have completed, the markers array, and the
\* markers on the map, are exactly the markers of the second run's successful
\* lookups.
C10_RunsDoNotInterfere ==
  (overlapped /\ pc[1] = "done" /\ pc[2] = "done" /\ "fetchWeatherData" \in performed[2])
    => /\ Len(markers) = Len(Succeeded(2))
       /\ \A k \in 1..Len(markers) :
            markers[k].run = 2 /\ markers[k].idx = Succeeded(2)[k].idx
       /\ mapMarkers = Range(markers)

====
